---- MODULE Spec2Model ----
(***************************************************************************)
(* The trading environments of bg_trade/envs.py as a state machine:        *)
(* TradingEnvironment (raw observations, simple reward), TradingEnvNorm    *)
(* (static shift/scale) and TradingEnvMaxScale (running maxima).           *)
(*                                                                         *)
(* Numbers.  Money and prices are fixed-point integers counted in units of *)
(* 10^-10, so that round(x, 9) is a real operation on them.  A quotient    *)
(* the code computes in floating point is kept as the pair <<num, den>>;   *)
(* a standard deviation as the variance it is the root of.                 *)
(*                                                                         *)
(* The Portfolio class (bg_trade/portfolio.py) is not part of the source   *)
(* at hand; PortfolioNew, PortfolioReset and MakeTrade follow the ledger   *)
(* contract of the specification.                                          *)
(***************************************************************************)
EXTENDS Integers, Sequences, FiniteSets, TLC

VARIABLES
    variant,          \* which class was constructed
    fee,              \* self.fee, in percent
    balance_init,     \* self.balance_init
    stocks,           \* self.stocks: asset -> row index -> feature -> value
    normalizers,      \* self._normalizers (TradingEnvNorm)
    agent_portfolio,  \* self.agent_portfolio
    long_portfolio,   \* self.long_portfolio
    current_step,     \* self.current_step (0: attribute not set yet)
    net_worth,        \* self.net_worth
    net_worth_long,   \* self.net_worth_long
    balance,          \* self.balance
    shares_held,      \* self.shares_held
    scalers,          \* self.scalers (TradingEnvMaxScale; empty: not set yet)
    ret,              \* what the last call did and returned
    hist              \* history, for stating properties: the steps since the last
                      \* reset that returned (steps_ok) and that raised after
                      \* trading (steps_raised), whether one of them returned done
                      \* (done_seen), whether any step ever did (done_before), and
                      \* the scalers and observation of the first reset that returned
                      \* (first), and the norms argument of the constructor

vars == << variant, fee, balance_init, stocks, normalizers, agent_portfolio,
           long_portfolio, current_step, net_worth, net_worth_long, balance,
           shares_held, scalers, ret, hist >>

----------------------------------------------------------------------------
(* Bounds of the model *)

MaxRows == 4          \* tables of Spec have 2..MaxRows rows
MaxScaleRows == 3     \* tables of SpecScale have 2..MaxScaleRows rows

----------------------------------------------------------------------------
(* Construction-time data *)

Variants == {"Simple", "Norm", "MaxScale"}

\* list(stock_data.keys()), in the dictionary's order
Assets == << "A", "B" >>

\* the feature columns of a table (two of the seven, one positive, one signed;
\* the code treats every column alike, elementwise)
Features == << "close", "diff" >>

Range(s) == { s[i] : i \in DOMAIN s }

AssetSet == Range(Assets)
FeatureSet == Range(Features)

\* self.positions
positions == Append(Assets, "_out")

\* self.n_stocks
n_stocks == Len(Assets)

\* self.n_obs
n_obs == Cardinality(DOMAIN stocks[positions[1]])

RECURSIVE SumOver(_, _)
SumOver(f, S) ==
    IF S = {} THEN 0
    ELSE LET x == CHOOSE y \in S : TRUE IN f[x] + SumOver(f, S \ {x})

Abs(x) == IF x < 0 THEN -x ELSE x

----------------------------------------------------------------------------
(* The ledger (Portfolio), from its contract *)

PortfolioReset(init) ==
    [ balance        |-> init,
      positions_full |-> [a \in AssetSet |-> 0],
      positions_norm |-> [p \in Range(positions) |->
                             IF p = "_out" THEN <<init, init>> ELSE <<0, init>>],
      net_worth      |-> init,
      profits        |-> << 0 >>,
      n_trades       |-> 0,
      last_alloc     |-> << >>,
      last_prices    |-> << >> ]

PortfolioNew(init) == PortfolioReset(init)

\* Rebalance towards the weights of `alloc` at `prices`, paying `rate` percent
\* of the traded value.  Whole shares only; the cash weight is implicit.
\* n_trades, last_alloc and last_prices record the calls the ledger received.
MakeTrade(p, alloc, prices, rate, init) ==
    LET worth  == p.balance
                  + SumOver([a \in AssetSet |-> p.positions_full[a] * prices[a]], AssetSet)
        target == [a \in AssetSet |-> (alloc[a] * worth) \div prices[a]]
        traded == SumOver([a \in AssetSet |->
                             Abs(target[a] - p.positions_full[a]) * prices[a]], AssetSet)
        cost   == (traded * rate) \div 100
        held   == SumOver([a \in AssetSet |-> target[a] * prices[a]], AssetSet)
        bal    == worth - held - cost
        nw     == bal + held
    IN  [ balance        |-> bal,
          positions_full |-> target,
          positions_norm |-> [q \in Range(positions) |->
                                IF q = "_out" THEN <<bal, nw>>
                                ELSE <<target[q] * prices[q], nw>>],
          net_worth      |-> nw,
          profits        |-> Append(p.profits, nw - init),
          n_trades       |-> p.n_trades + 1,
          last_alloc     |-> alloc,
          last_prices    |-> prices ]

----------------------------------------------------------------------------
(* Pure helpers of the environments *)

\* round(x, 9) of an amount in units of 10^-10, in units of 10^-9
\* (Python rounds a tie to the even neighbour)
Round9(x) ==
    LET q == x \div 10
        r == x % 10
    IN  IF r < 5 THEN q
        ELSE IF r > 5 THEN q + 1
        ELSE IF q % 2 = 0 THEN q ELSE q + 1

\* a faulty format_action that pairs the quantities with the positions from
\* the wrong end
FormatActionReversed(pos, quantities) ==
    IF Len(pos) # Len(quantities)
    THEN [ok |-> FALSE, dict |-> << >>]
    ELSE [ok   |-> TRUE,
          dict |-> [p \in Range(pos) |->
                      quantities[Len(pos) + 1 - (CHOOSE i \in DOMAIN pos : pos[i] = p)]]]

\* a faulty format_action without the length check: zip stops at the shorter
\* of the two
FormatActionTruncating(pos, quantities) ==
    LET n == IF Len(pos) < Len(quantities) THEN Len(pos) ELSE Len(quantities)
    IN  [ok   |-> TRUE,
         dict |-> [p \in { pos[i] : i \in 1..n } |->
                     quantities[CHOOSE i \in 1..n : pos[i] = p]]]

\* format_action: the asserts, then dict(zip(positions, quantities));
\* a key written twice keeps the later value
FormatAction(pos, quantities) ==
    IF Len(pos) # Len(quantities)
    THEN [ok |-> FALSE, dict |-> << >>]
    ELSE [ok   |-> TRUE,
          dict |-> [p \in Range(pos) |->
                      LET last == CHOOSE i \in DOMAIN pos :
                                     /\ pos[i] = p
                                     /\ \A j \in DOMAIN pos : pos[j] = p => j <= i
                      IN  quantities[last]]]

\* a faulty `done` that compares the balance without rounding it
IsDoneUnrounded(bal, step, n) == (bal < 0) \/ (step >= n - 1)

\* a faulty `done` that waits for the cursor to pass the last row
IsDoneLate(bal, step, n) == (Round9(bal) < 0) \/ (step > n - 1)

\* the `done` expression of step()
IsDone(bal, step, n) == (Round9(bal) < 0) \/ (step >= n - 1)

\* df.std() of one column, as the variance <<numerator, denominator>>
\* (sample variance, n-1 in the denominator)
Variance(df, f) ==
    LET n  == Cardinality(DOMAIN df)
        s1 == SumOver([r \in DOMAIN df |-> df[r][f]], DOMAIN df)
        s2 == SumOver([r \in DOMAIN df |-> df[r][f] * df[r][f]], DOMAIN df)
    IN  << n * s2 - s1 * s1, n * (n - 1) >>

\* the normalizers setter with norms = None
DefaultNormalizers(tables) ==
    [a \in AssetSet |->
        [ scale |-> [f \in FeatureSet |-> Variance(tables[a], f)],
          shift |-> [f \in FeatureSet |-> tables[a][0][f]] ]]

\* the keys the setter asks of each asset's entry
NormKeys == {"scale", "shift"}

\* a faulty setter that asks only that the keys it needs are there
NormalizersSetterLax(norms, tables) ==
    IF norms.kind = "none"
    THEN [status |-> "ok", normalizers |-> DefaultNormalizers(tables)]
    ELSE IF norms.kind = "dict"
    THEN IF ~(DOMAIN tables \subseteq DOMAIN norms.value)
         THEN [status |-> "AssertionError", normalizers |-> << >>]
         ELSE IF ~(\A k \in DOMAIN norms.value : NormKeys \subseteq DOMAIN norms.value[k])
         THEN [status |-> "AssertionError", normalizers |-> << >>]
         ELSE [status |-> "ok", normalizers |-> norms.value]
    ELSE [status |-> "ValueError", normalizers |-> << >>]

\* the normalizers setter: norms is None (kind "none"), a dict (kind "dict",
\* its content in value) or anything else; the exception it raises, or the
\* value it stores in self._normalizers
NormalizersSetter(norms, tables) ==
    IF norms.kind = "none"
    THEN [status |-> "ok", normalizers |-> DefaultNormalizers(tables)]
    ELSE IF norms.kind = "dict"
    THEN IF DOMAIN norms.value # DOMAIN tables
         THEN [status |-> "AssertionError", normalizers |-> << >>]
         ELSE IF ~(\A k \in DOMAIN norms.value : DOMAIN norms.value[k] = NormKeys)
         THEN [status |-> "AssertionError", normalizers |-> << >>]
         ELSE [status |-> "ok", normalizers |-> norms.value]
    ELSE [status |-> "ValueError", normalizers |-> << >>]

\* _update_scalers: the elementwise maximum, written into the scalers
UpdateScalers(sc, obs) == [f \in FeatureSet |-> IF sc[f] >= obs[f] THEN sc[f] ELSE obs[f]]

\* the while loop of _configure_scalers_init for one table: as long as a
\* component is zero, move to the next row and take its values for the zero
\* components; reading past the last row raises IndexError
RECURSIVE ScanZeros(_, _, _)
ScanZeros(sc, i, df) ==
    IF \A f \in FeatureSet : sc[f] # 0
    THEN [ok |-> TRUE, scalers |-> sc, i |-> i]
    ELSE IF (i + 1) \notin DOMAIN df
    THEN [ok |-> FALSE, scalers |-> sc, i |-> i + 1]
    ELSE ScanZeros([f \in FeatureSet |-> IF sc[f] = 0 THEN df[i + 1][f] ELSE sc[f]],
                   i + 1, df)

\* the for loop of _configure_scalers_init from the k-th asset on; the row
\* index i is carried from one asset to the next
RECURSIVE ConfigureFrom(_, _, _, _)
ConfigureFrom(k, i, full, tables) ==
    IF k > Len(Assets) THEN [ok |-> TRUE, scalers |-> full]
    ELSE LET df == tables[Assets[k]] IN
         IF i \notin DOMAIN df THEN [ok |-> FALSE, scalers |-> full]
         ELSE LET one == ScanZeros(df[i], i, df) IN
              IF ~one.ok THEN [ok |-> FALSE, scalers |-> full]
              ELSE ConfigureFrom(k + 1, one.i,
                                 [a \in (DOMAIN full) \cup {Assets[k]} |->
                                     IF a = Assets[k] THEN one.scalers ELSE full[a]],
                                 tables)

\* _configure_scalers_init(stocks, start)
ConfigureScalersInit(tables, start) == ConfigureFrom(1, 0 + start, << >>, tables)

\* TradingEnvNorm._price_per_share; portion is a fraction <<num, den>>.
\* The result is 0, or the logarithm of num/den.
PricePerShareNorm(nw, bal, shares, portion) ==
    IF shares >= 1
    THEN LET num == (nw - bal) * portion[1]
             den == portion[2] * shares
         IN  IF num = 0 /\ den # 0
             THEN [log |-> FALSE, num |-> 0, den |-> 1]
             ELSE [log |-> TRUE, num |-> num, den |-> den]
    ELSE [log |-> FALSE, num |-> 0, den |-> 1]

\* a faulty _price_per_share without the test on the shares
PricePerShareUnguarded(nw, bal, shares, portion) ==
    LET num == (nw - bal) * portion[1]
        den == portion[2] * shares
    IN  IF num = 0 /\ den # 0
        THEN [log |-> FALSE, num |-> 0, den |-> 1]
        ELSE [log |-> TRUE, num |-> num, den |-> den]

\* TradingEnvMaxScale._price_per_share
PricePerShareMaxScale(nw, bal, shares, portion) ==
    IF shares >= 1
    THEN LET num == (nw - bal) * portion[1]
             den == portion[2] * shares
         IN  IF num = 0 /\ den # 0
             THEN [log |-> FALSE, num |-> 0, den |-> 1]
             ELSE [log |-> TRUE, num |-> num, den |-> den]
    ELSE [log |-> FALSE, num |-> 0, den |-> 1]

\* the last element of a list
Last(s) == s[Len(s)]

----------------------------------------------------------------------------
(* Observation, reward *)

\* the fields of self that an observation reads
Self ==
    [ current_step    |-> current_step,
      agent_portfolio |-> agent_portfolio,
      long_portfolio  |-> long_portfolio,
      net_worth       |-> net_worth,
      net_worth_long  |-> net_worth_long,
      balance         |-> balance,
      shares_held     |-> shares_held,
      scalers         |-> scalers ]

\* the row an observation selects: df.loc[self.current_step, [...]]
ObservedRow(a, step) == stocks[a][step]

\* TradingEnvironment._next_observation
ObservationSimple(s) ==
    [ rows |-> [a \in AssetSet |->
                  [features |-> [f \in FeatureSet |-> ObservedRow(a, s.current_step)[f]]]] ]

\* the meta row of the two normalising environments
MetaRow(s, pps) ==
    [ profit   |-> << Last(s.net_worth) - balance_init, balance_init >>,
      invested |-> << Last(s.net_worth) - s.balance, balance_init >>,
      worth    |-> << Last(s.net_worth), balance_init >>,
      liquid   |-> << s.balance, balance_init >>,
      pps      |-> pps ]

\* TradingEnvNorm._next_observation
ObservationNorm(s) ==
    [ rows |-> [a \in AssetSet |->
                  [features |-> [f \in FeatureSet |->
                                   [num |-> ObservedRow(a, s.current_step)[f]
                                            - normalizers[a].shift[f],
                                    den |-> normalizers[a].scale[f]]],
                   exposure |-> s.agent_portfolio.positions_norm[a],
                   pps      |-> PricePerShareNorm(Last(s.net_worth), s.balance,
                                    s.agent_portfolio.positions_full[a],
                                    s.agent_portfolio.positions_norm[a])]],
      meta |-> MetaRow(s, PricePerShareNorm(Last(s.net_worth), s.balance,
                                            s.shares_held, <<1, 1>>)) ]

\* TradingEnvMaxScale._next_observation, the observation it returns: each raw
\* value over the running maximum as it stands before this row is merged in
ObservationMaxScale(s) ==
    [ rows |-> [a \in AssetSet |->
                  [features |-> [f \in FeatureSet |->
                                   [num |-> ObservedRow(a, s.current_step)[f],
                                    den |-> s.scalers[a][f]]],
                   exposure |-> s.agent_portfolio.positions_norm[a],
                   pps      |-> PricePerShareMaxScale(Last(s.net_worth), s.balance,
                                    s.agent_portfolio.positions_full[a],
                                    s.agent_portfolio.positions_norm[a])]],
      meta |-> MetaRow(s, PricePerShareMaxScale(Last(s.net_worth), s.balance,
                                                s.shares_held, <<1, 1>>)) ]

\* TradingEnvMaxScale._next_observation, the scalers it leaves behind
ScalersAfterObservation(s) ==
    [a \in AssetSet |-> UpdateScalers(s.scalers[a], ObservedRow(a, s.current_step))]

\* _next_observation of the constructed class: the exception it raises, or the
\* observation and the scalers afterwards
NextObservation(s) ==
    IF \E a \in AssetSet : s.current_step \notin DOMAIN stocks[a]
    THEN [status |-> "KeyError", obs |-> << >>, scalers |-> s.scalers]
    ELSE IF variant = "Simple"
    THEN [status |-> "ok", obs |-> ObservationSimple(s), scalers |-> s.scalers]
    ELSE IF variant = "Norm"
    THEN [status |-> "ok", obs |-> ObservationNorm(s), scalers |-> s.scalers]
    ELSE IF DOMAIN s.scalers = {}
    THEN [status |-> "AttributeError", obs |-> << >>, scalers |-> s.scalers]
    ELSE [status |-> "ok", obs |-> ObservationMaxScale(s),
          scalers |-> ScalersAfterObservation(s)]

\* the reward of TradingEnvironment.step
RewardSimple(s) ==
    [ num |-> Last(s.agent_portfolio.profits) - Last(s.long_portfolio.profits),
      den |-> balance_init ]

\* _reward_fn of the two normalising environments: the two quotients and the
\* number of assets that are charged the penalty
RewardFn(s) ==
    [ profit_edge |-> << Last(s.agent_portfolio.profits) - Last(s.long_portfolio.profits),
                         Abs(Last(s.long_portfolio.profits)) >>,
      worth_edge  |-> << s.agent_portfolio.net_worth - s.long_portfolio.net_worth,
                         Abs(s.long_portfolio.net_worth) >>,
      idle        |-> Cardinality({a \in AssetSet : s.agent_portfolio.positions_full[a] < 1}) ]

Reward(s) == IF variant = "Simple" THEN RewardSimple(s) ELSE RewardFn(s)

----------------------------------------------------------------------------
(* The operations *)

\* actions_long of _take_action
ActionsLong == [a \in AssetSet |-> 1]

\* faulty prices, read from the row before the cursor
PricesAtPrevious(step) == [a \in AssetSet |-> stocks[a][step - 1]["close"]]

\* prices of _take_action: the close of the row at the cursor
PricesAt(step) == [a \in AssetSet |-> stocks[a][step]["close"]]

\* a faulty append that drops every value after the first step's
AppendWorthOnce(trajectory, worth) ==
    IF Len(trajectory) >= 2 THEN trajectory ELSE Append(trajectory, worth)

\* the two appends of _take_action
AppendWorth(trajectory, worth) == Append(trajectory, worth)

\* self.current_step += 1
StepCursor(step) == step + 1

\* a faulty _take_action that forgets the two mirrors
TakeActionStaleMirrors(s, action) ==
    LET prices == PricesAt(s.current_step)
        ap     == MakeTrade(s.agent_portfolio, action, prices, fee, balance_init)
        lp     == MakeTrade(s.long_portfolio, ActionsLong, prices, fee, balance_init)
    IN  [ s EXCEPT !.agent_portfolio = ap,
                   !.long_portfolio  = lp,
                   !.net_worth       = AppendWorth(s.net_worth, ap.net_worth),
                   !.net_worth_long  = AppendWorth(s.net_worth_long, lp.net_worth) ]

\* a faulty _take_action that leaves the baseline alone while the agent
\* stays in cash
TakeActionIdleBaseline(s, action) ==
    LET prices == PricesAt(s.current_step)
        ap     == MakeTrade(s.agent_portfolio, action, prices, fee, balance_init)
        lp     == IF \A a \in AssetSet : action[a] = 0
                  THEN s.long_portfolio
                  ELSE MakeTrade(s.long_portfolio, ActionsLong, prices, fee, balance_init)
    IN  [ s EXCEPT !.agent_portfolio = ap,
                   !.long_portfolio  = lp,
                   !.net_worth       = AppendWorth(s.net_worth, ap.net_worth),
                   !.net_worth_long  = AppendWorth(s.net_worth_long, lp.net_worth),
                   !.balance         = ap.balance,
                   !.shares_held     = SumOver(ap.positions_full, AssetSet) ]

\* _take_action(action), on the fields of self
TakeAction(s, action) ==
    LET prices == PricesAt(s.current_step)
        ap     == MakeTrade(s.agent_portfolio, action, prices, fee, balance_init)
        lp     == MakeTrade(s.long_portfolio, ActionsLong, prices, fee, balance_init)
    IN  [ s EXCEPT !.agent_portfolio = ap,
                   !.long_portfolio  = lp,
                   !.net_worth       = AppendWorth(s.net_worth, ap.net_worth),
                   !.net_worth_long  = AppendWorth(s.net_worth_long, lp.net_worth),
                   !.balance         = ap.balance,
                   !.shares_held     = SumOver(ap.positions_full, AssetSet) ]

\* the mapping step() hands to _take_action: the action itself when it is a
\* dict, format_action(self.positions, action) otherwise
Formatted(action) ==
    IF action.kind = "dict"
    THEN [ok |-> TRUE, dict |-> action.alloc]
    ELSE FormatAction(positions, action.w)

\* what a call records when it raises
Raised(op, status) ==
    [ op |-> op, status |-> status, form |-> "", obs |-> << >>, reward |-> << >>,
      done |-> FALSE, traded |-> FALSE ]

\* a faulty reset that keeps the running maxima of the episode before
ResetScalersKeep(old, tables, step) ==
    IF DOMAIN old = {} THEN ConfigureScalersInit(tables, step - 1)
    ELSE [ok |-> TRUE, scalers |-> old]

\* the scalers reset() installs (TradingEnvMaxScale.reset)
ResetScalers(old, tables, step) == ConfigureScalersInit(tables, step - 1)

\* the assignments of reset() before the scalers and the observation
ResetFields(s) ==
    [ s EXCEPT !.current_step    = 1,
               !.agent_portfolio = PortfolioReset(balance_init),
               !.long_portfolio  = PortfolioReset(balance_init),
               !.balance         = balance_init,
               !.net_worth       = << balance_init >>,
               !.net_worth_long  = << balance_init >>,
               !.shares_held     = 0 ]

\* what reset() leaves behind and returns: the fields of self, what the call
\* records, and the history
ResetOutcome ==
    LET s1 == ResetFields(Self)
        c  == IF variant = "MaxScale"
              THEN ResetScalers(scalers, stocks, s1.current_step)
              ELSE [ok |-> TRUE, scalers |-> scalers]
        s2 == [s1 EXCEPT !.scalers = c.scalers]
        o  == NextObservation(s2)
        fresh == [hist EXCEPT !.steps_ok = 0, !.steps_raised = 0, !.done_seen = FALSE]
    IN  IF ~c.ok
        THEN [self |-> s1, ret |-> Raised("reset", "IndexError"), hist |-> fresh]
        ELSE IF o.status # "ok"
        THEN [self |-> [s2 EXCEPT !.scalers = o.scalers],
              ret |-> Raised("reset", o.status), hist |-> fresh]
        ELSE [self |-> [s2 EXCEPT !.scalers = o.scalers],
              ret  |-> [ Raised("reset", "ok") EXCEPT !.obs = o.obs ],
              hist |-> [fresh EXCEPT !.first =
                          IF hist.first.set THEN hist.first
                          ELSE [set |-> TRUE, scalers |-> o.scalers, obs |-> o.obs]]]

\* what step(action) leaves behind and returns
StepOutcome(action) ==
    LET fa == Formatted(action) IN
    IF ~fa.ok
    THEN [self |-> Self, hist |-> hist,
          ret |-> [Raised("step", "AssertionError") EXCEPT !.form = action.kind]]
    ELSE IF current_step = 0
    THEN [self |-> Self, hist |-> hist,
          ret |-> [Raised("step", "AttributeError") EXCEPT !.form = action.kind]]
    ELSE IF \E a \in AssetSet : current_step \notin DOMAIN stocks[a]
    THEN [self |-> Self, hist |-> hist,
          ret |-> [Raised("step", "KeyError") EXCEPT !.form = action.kind]]
    ELSE LET s1 == TakeAction(Self, fa.dict)
             s2 == [s1 EXCEPT !.current_step = StepCursor(s1.current_step)]
             o  == NextObservation(s2)
             d  == IsDone(s2.balance, s2.current_step, n_obs)
         IN  IF o.status # "ok"
             THEN [self |-> [s2 EXCEPT !.scalers = o.scalers],
                   ret  |-> [ Raised("step", o.status) EXCEPT
                                !.form = action.kind, !.traded = TRUE ],
                   hist |-> [hist EXCEPT !.steps_raised = @ + 1]]
             ELSE [self |-> [s2 EXCEPT !.scalers = o.scalers],
                   ret  |-> [ op |-> "step", status |-> "ok", form |-> action.kind,
                              obs |-> o.obs, reward |-> Reward(s2), done |-> d,
                              traded |-> TRUE ],
                   hist |-> [hist EXCEPT !.steps_ok = @ + 1,
                                         !.done_seen = @ \/ d,
                                         !.done_before = @ \/ d]]

\* a faulty write-back in which the scalers are a view of the seed row of the
\* table, so that what is written into them lands in row 0
StoreAliased(out) ==
    /\ current_step'    = out.self.current_step
    /\ agent_portfolio' = out.self.agent_portfolio
    /\ long_portfolio'  = out.self.long_portfolio
    /\ net_worth'       = out.self.net_worth
    /\ net_worth_long'  = out.self.net_worth_long
    /\ balance'         = out.self.balance
    /\ shares_held'     = out.self.shares_held
    /\ scalers'         = out.self.scalers
    /\ ret'             = out.ret
    /\ hist'            = out.hist
    /\ stocks'          = IF DOMAIN out.self.scalers = {} THEN stocks
                          ELSE [a \in AssetSet |->
                                  [stocks[a] EXCEPT ![0] = out.self.scalers[a]]]
    /\ UNCHANGED << variant, fee, balance_init, normalizers >>

\* the outcome written back: reset() and step() assign to the episode fields
\* and to nothing else; the scalers are arrays of their own
\* (df.drop('date', axis=1).values is a fresh array), not part of the table
Store(out) ==
    /\ current_step'    = out.self.current_step
    /\ agent_portfolio' = out.self.agent_portfolio
    /\ long_portfolio'  = out.self.long_portfolio
    /\ net_worth'       = out.self.net_worth
    /\ net_worth_long'  = out.self.net_worth_long
    /\ balance'         = out.self.balance
    /\ shares_held'     = out.self.shares_held
    /\ scalers'         = out.self.scalers
    /\ ret'             = out.ret
    /\ hist'            = out.hist
    /\ UNCHANGED << variant, fee, balance_init, stocks, normalizers >>

\* the constructor returned an environment (an __init__ that raises leaves
\* no object to call)
Exists == ret.op # "init" \/ ret.status = "ok"

\* reset() of the constructed class
Reset == Exists /\ \E out \in {ResetOutcome} : Store(out)

\* step(action) of the constructed class
Step(action) == Exists /\ \E out \in {StepOutcome(action)} : Store(out)

----------------------------------------------------------------------------
(* Inputs *)

Weights == {0, 1}

\* the weight vectors tried: every asset in or out, cash exactly when no asset
\* is in (two assets in is an over-invested request)
WeightVectors ==
    { w \in [1..(n_stocks + 1) -> Weights] :
        w[n_stocks + 1] = 1 <=> \A i \in 1..n_stocks : w[i] = 0 }

\* dense actions of the right length
DenseActions == { [kind |-> "seq", w |-> w] : w \in WeightVectors }

\* dense actions one short and one long

MalformedActions ==
    { [kind |-> "seq", w |-> w] :
        w \in [1..n_stocks -> {1}] \cup [1..(n_stocks + 2) -> {1}] }

\* mapping actions over the positions
MappingActions ==
    { [kind |-> "dict", alloc |-> [p \in Range(positions) |->
                                     w[CHOOSE i \in DOMAIN positions : positions[i] = p]]] :
        w \in WeightVectors }

Actions == DenseActions \cup MalformedActions \cup MappingActions

\* a table per asset from its close column: diff is the change of close
\* (row 0 carries the close itself)
TableOf(close) ==
    [a \in AssetSet |->
        [r \in DOMAIN close[a] |->
            [ close |-> close[a][r],
              diff  |-> IF r = 0 THEN close[a][0] ELSE close[a][r] - close[a][r - 1] ]]]

CloseVals(a) == IF a = "A" THEN {10, 20} ELSE {20}

Tables ==
    UNION { { TableOf([a \in AssetSet |-> IF a = "A" THEN ca ELSE cb]) :
                ca \in [0..(n - 1) -> CloseVals("A")],
                cb \in [0..(n - 1) -> CloseVals("B")] } : n \in 2..MaxRows }

\* tables for the running maxima: close fixed, above the initial capital, so
\* that the ledgers stay in cash; diff free, row by row
DiffVals(a) == IF a = "A" THEN {-2, -1, 0, 1} ELSE {-1, 0, 1}

ScaleTables ==
    UNION { { [a \in AssetSet |->
                 [r \in 0..(n - 1) |-> [close |-> 50, diff |-> d[a][r]]]] :
                d \in { e \in [AssetSet -> [0..(n - 1) -> DiffVals("A")]] :
                           \A r \in 0..(n - 1) : e["B"][r] \in DiffVals("B") } } :
            n \in 2..MaxScaleRows }

\* norms left out (None); the only value for the classes without the argument
NoNorms == [kind |-> "none"]

\* an entry of external norms with the given keys: shift 10 and scale 2 under
\* the two keys the setter asks for (a scale is written, like the default
\* one, as the variance <<num, den>> it is the root of)
NormItem(keys) ==
    [k \in keys |-> [f \in FeatureSet |-> IF k = "shift" THEN 10
                                          ELSE IF k = "scale" THEN <<4, 1>> ELSE 0]]

\* the key sets tried for an entry: right, one missing, one too many
NormItemKeys == { NormKeys, {"scale"}, NormKeys \cup {"mean"} }

\* the norms arguments tried: None, something that is no dict, dicts over the
\* assets with every mix of entries, and well-formed entries over one asset
\* too few and one too many
NormsInputs ==
    {NoNorms, [kind |-> "list"]}
    \cup { [kind |-> "dict", value |-> [a \in AssetSet |-> NormItem(ks[a])]] :
             ks \in [AssetSet -> NormItemKeys] }
    \cup { [kind |-> "dict", value |-> [a \in K |-> NormItem(NormKeys)]] :
             K \in { AssetSet \ {Assets[1]}, AssetSet \cup {"C"} } }

\* the state after construction with the argument norms; the attributes reset()
\* creates are not set
Constructed(norms) ==
    /\ normalizers = IF variant = "Norm"
                     THEN NormalizersSetter(norms, stocks).normalizers ELSE << >>
    /\ agent_portfolio = PortfolioNew(balance_init)
    /\ long_portfolio = PortfolioNew(balance_init)
    /\ current_step = 0
    /\ net_worth = << >>
    /\ net_worth_long = << >>
    /\ balance = 0
    /\ shares_held = 0
    /\ scalers = << >>
    /\ ret = Raised("init", IF variant = "Norm"
                            THEN NormalizersSetter(norms, stocks).status ELSE "ok")
    /\ hist = [ steps_ok |-> 0, steps_raised |-> 0, done_seen |-> FALSE,
                done_before |-> FALSE,
                first |-> [set |-> FALSE, scalers |-> << >>, obs |-> << >>],
                norms |-> norms ]

Init ==
    /\ variant \in Variants
    /\ fee \in {0, 10}
    /\ balance_init = 40
    /\ stocks \in Tables
    /\ \E norms \in (IF variant = "Norm" THEN NormsInputs ELSE {NoNorms}) :
           Constructed(norms)

InitScale ==
    /\ variant = "MaxScale"
    /\ fee = 0
    /\ balance_init = 40
    /\ stocks \in ScaleTables
    /\ Constructed(NoNorms)

Next ==
    \/ Reset
    \/ \E action \in Actions : Step(action)

Spec == Init /\ [][Next]_vars

SpecScale == InitScale /\ [][Next]_vars

----------------------------------------------------------------------------
(* Properties *)

\* the trading step() calls since the last reset
Calls == hist.steps_ok + hist.steps_raised

WasReset == ret.op = "reset"
Stepped == ret.op = "step" /\ ret.traded
Returned == ret.status = "ok"

\* C1: once reset() has run, both net-worth trajectories have the same length,
\* which is current_step - 1 + 1 and one more than the number of step() calls
\* that traded since the reset (k + 1 after k successful calls); reset() leaves
\* each with the single value balance_init.
C1_TrajectoryLength ==
    current_step # 0 =>
        /\ Len(net_worth) = Len(net_worth_long)
        /\ Len(net_worth) = current_step - 1 + 1
        /\ Len(net_worth) = Calls + 1
        /\ hist.steps_raised = 0 => Len(net_worth) = hist.steps_ok + 1
        /\ WasReset => net_worth = << balance_init >> /\ net_worth_long = << balance_init >>

\* two successful steps after a reset: trajectories of length three
C1_Witness ==
    /\ Stepped /\ Returned
    /\ hist.steps_ok = 2 /\ hist.steps_raised = 0
    /\ Len(net_worth) = 3 /\ Len(net_worth_long) = 3

\* C2 (as claimed): once reset() has run, 1 <= current_step <= N-1 in every
\* state; reset() sets the cursor to 1, a step() that trades adds exactly 1,
\* and nothing else moves it.
C2_CursorRange ==
    [][ /\ current_step' # 0 => (1 <= current_step' /\ current_step' <= n_obs - 1)
        /\ ret'.op = "reset" => current_step' = 1
        /\ (ret'.op = "step" /\ ret'.traded) => current_step' = current_step + 1
        /\ (ret'.op = "step" /\ ~ret'.traded) => current_step' = current_step ]_vars

\* C3 (as claimed): once a step() has returned done = TRUE, a further step()
\* before the next reset() changes neither the cursor nor either ledger.
C3_TerminationClosure ==
    [][ (hist.done_seen /\ ret'.op = "step") =>
            /\ current_step' = current_step
            /\ agent_portfolio' = agent_portfolio
            /\ long_portfolio' = long_portfolio ]_vars

\* C4: a step() that returns, returns done = TRUE exactly when the agent
\* ledger's balance, rounded to 9 decimals, is negative or the cursor after the
\* increment is at least N-1; whether a step() that traded returns or raises
\* depends on the cursor (and the scalers being set), never on the balance.
C4_DoneCondition ==
    Stepped =>
        /\ Returned =>
             (ret.done <=> (Round9(agent_portfolio.balance) < 0 \/ current_step >= n_obs - 1))
        /\ Returned <=>
             /\ current_step <= n_obs - 1
             /\ variant = "MaxScale" => DOMAIN scalers # {}

\* a step that returned done = TRUE before the data ran out, the agent insolvent
C4_Witness ==
    /\ Stepped /\ Returned /\ ret.done
    /\ current_step < n_obs - 1
    /\ Round9(agent_portfolio.balance) < 0

\* C5 (as claimed): on a table of 4 rows, with the agent's balance
\* non-negative, the step() calls after reset() return without error and with
\* done = FALSE until the third, which is the first to return done = TRUE
\* (call number N-1).
C5_DoneOnThirdCall ==
    (Stepped /\ Round9(agent_portfolio.balance) >= 0 /\ n_obs = 4 /\ Calls <= n_obs - 1
       /\ (variant = "MaxScale" => DOMAIN scalers # {})) =>
        /\ Returned
        /\ ret.done <=> Calls = n_obs - 1

\* C5 (amended): on a table of N >= 3 rows, with the agent's balance
\* non-negative, call number k <= N-2 after a reset() that returned returns
\* without error, with done = TRUE exactly for k = N-2: on 4 rows the second
\* call is the first to return done = TRUE, from current_step >= N-1 alone.
C5_DoneOnCallNMinus2 ==
    (Stepped /\ Round9(agent_portfolio.balance) >= 0 /\ n_obs >= 3 /\ Calls <= n_obs - 2
       /\ (variant = "MaxScale" => DOMAIN scalers # {})) =>
        /\ Returned
        /\ ret.done <=> Calls = n_obs - 2

\* 4 rows, the second call returns done = TRUE with a non-negative balance
C5_Witness ==
    /\ Stepped /\ Returned /\ ret.done
    /\ n_obs = 4 /\ Calls = 2 /\ hist.steps_ok = 2
    /\ ~IsDone(agent_portfolio.balance, 0, n_obs)

\* the mapping {positions[i]: w[i]} of a dense action w
MappingOf(w) ==
    [p \in Range(positions) |-> w[CHOOSE i \in DOMAIN positions : positions[i] = p]]

\* an outcome without the note of the form the action came in
Formless(out) == [out EXCEPT !.ret.form = ""]

\* C6: from any state, step(w) for a dense w of length n_assets+1 and
\* step({positions[i]: w[i]}) hand the same allocation to the agent ledger and
\* leave the same cursor, ledgers, trajectories, mirrors, reward and done.
C6_FormatEquivalence ==
    \A w \in [1..(n_stocks + 1) -> Weights] :
        LET dense  == StepOutcome([kind |-> "seq", w |-> w])
            mapped == StepOutcome([kind |-> "dict", alloc |-> MappingOf(w)])
        IN  /\ Formless(dense) = Formless(mapped)
            /\ dense.ret.traded =>
                 dense.self.agent_portfolio.last_alloc = MappingOf(w)

\* a dense action that asks for asset A alone has been traded
C6_Witness ==
    /\ Stepped /\ Returned /\ ret.form = "seq"
    /\ agent_portfolio.last_alloc = [p \in Range(positions) |-> IF p = "A" THEN 1 ELSE 0]
    /\ agent_portfolio.positions_full["A"] > 0

\* C7: from any state, step() with a dense action of a length other than
\* n_assets+1 raises in format_action and leaves the cursor, both ledgers, both
\* trajectories, the mirrors and the running maxima as they were.
C7_MalformedAtomic ==
    \A action \in MalformedActions :
        LET out == StepOutcome(action)
        IN  /\ out.ret.status = "AssertionError"
            /\ ~out.ret.traded
            /\ out.self = Self
            /\ out.hist = hist

\* a malformed action was refused in the middle of a max-scale episode
C7_Witness ==
    /\ ret.op = "step" /\ ret.status = "AssertionError"
    /\ variant = "MaxScale" /\ hist.steps_ok >= 1 /\ ~hist.done_seen

\* the raw table value behind a component of an observation
RawOf(obs, a, f) ==
    IF variant = "Simple" THEN obs.rows[a].features[f]
    ELSE IF variant = "Norm" THEN obs.rows[a].features[f].num + normalizers[a].shift[f]
    ELSE obs.rows[a].features[f].num

\* C8: after a step() entered at cursor t (now current_step = t+1), both
\* ledgers were handed the close values of row t, the trajectories end with
\* the net worths of those trades, and the observation returned is that of
\* row t+1.
C8_PricingOrder ==
    Stepped =>
        /\ agent_portfolio.last_prices =
             [a \in AssetSet |-> stocks[a][current_step - 1]["close"]]
        /\ long_portfolio.last_prices = agent_portfolio.last_prices
        /\ Last(net_worth) = agent_portfolio.net_worth
        /\ Last(net_worth_long) = long_portfolio.net_worth
        /\ Returned =>
             \A a \in AssetSet, f \in FeatureSet :
                 RawOf(ret.obs, a, f) = stocks[a][current_step][f]

\* a step across two rows with different prices
C8_Witness ==
    /\ Stepped /\ Returned
    /\ stocks["A"][current_step]["close"] # stocks["A"][current_step - 1]["close"]
    /\ agent_portfolio.positions_full["A"] > 0

\* C9: reset() leaves the cursor at 1, both ledgers reset, both trajectories
\* at the single value balance_init, the mirrors at balance_init and 0; the
\* observation it returns and, for max-scale, the running maxima it leaves are
\* those of the first reset().
C9_ResetRestores ==
    WasReset =>
        /\ current_step = 1
        /\ agent_portfolio = PortfolioReset(balance_init)
        /\ long_portfolio = PortfolioReset(balance_init)
        /\ net_worth = << balance_init >>
        /\ net_worth_long = << balance_init >>
        /\ balance = balance_init
        /\ shares_held = 0
        /\ Returned =>
             /\ hist.first.set
             /\ ret.obs = hist.first.obs
             /\ variant = "MaxScale" => scalers = hist.first.scalers

\* a reset after a max-scale episode that ended with done = TRUE and had
\* raised the running maximum of A's close at row 2
C9_Witness ==
    /\ WasReset /\ Returned /\ variant = "MaxScale"
    /\ hist.done_before
    /\ n_obs = 3
    /\ stocks["A"][2]["close"] > stocks["A"][1]["close"]
    /\ stocks["A"][2]["close"] > stocks["A"][0]["close"]

\* the largest value of a column
ColumnMax(a, f) ==
    CHOOSE m \in { stocks[a][r][f] : r \in DOMAIN stocks[a] } :
        \A r \in DOMAIN stocks[a] : stocks[a][r][f] <= m

\* the row holding the maximum of the column has been observed before the
\* observation at cursor `step`
MaxObserved(a, f, step) == \E r \in 1..(step - 1) : stocks[a][r][f] = ColumnMax(a, f)

\* num/den is not above 1 in floating point (x/0 is an infinity; 0/0, not a
\* number, is let pass)
LeqOne(q) ==
    IF q.den > 0 THEN q.num <= q.den
    ELSE IF q.den < 0 THEN q.num >= q.den
    ELSE q.num <= 0

\* C10, first half: a step() of the max-scale variant lowers no running maximum.
C10_Monotone ==
    [][ (ret'.op = "step" /\ ret'.status = "ok" /\ variant = "MaxScale") =>
            \A a \in AssetSet, f \in FeatureSet : scalers'[a][f] >= scalers[a][f] ]_vars

\* C10 (as claimed): a step() of the max-scale variant lowers no running
\* maximum, and once the row holding a feature's maximum has been observed,
\* every later component raw/running_max of that feature is <= 1.
C10_MaxScaleBound ==
    [][ (ret'.op = "step" /\ ret'.status = "ok" /\ variant = "MaxScale") =>
            \A a \in AssetSet, f \in FeatureSet :
                /\ scalers'[a][f] >= scalers[a][f]
                /\ MaxObserved(a, f, current_step') =>
                     LeqOne(ret'.obs.rows[a].features[f]) ]_vars

\* amounts, share counts and portions _price_per_share is tried on, next to
\* those the observations hand it (a portion is a fraction <<num, den>>)
PpsAmounts == {0, 10, 40}
PpsShares == {-1, 0, 1, 2}
PpsPortions == { <<0, 40>>, <<10, 40>>, <<40, 40>>, <<-10, 40>> }

\* the plain 0 that _price_per_share returns when it takes no logarithm
PpsZero == [log |-> FALSE, num |-> 0, den |-> 1]

\* C11: _price_per_share returns exactly 0 when shares < 1, whatever net
\* worth, balance and portion are, and 0 when shares >= 1 and
\* (net_worth - balance) * portion / shares is 0; the functions of the static
\* and of the max-scale variant return the same result on every input, those
\* tried here and those the observations of either variant hand them.
C11_PricePerShareZero ==
    /\ \A nw \in PpsAmounts, bal \in PpsAmounts, shares \in PpsShares,
          portion \in PpsPortions :
           LET static  == PricePerShareNorm(nw, bal, shares, portion)
               running == PricePerShareMaxScale(nw, bal, shares, portion)
           IN  /\ shares < 1 => static = PpsZero
               /\ (shares >= 1 /\ (nw - bal) * portion[1] = 0) => static = PpsZero
               /\ (shares >= 1 /\ (nw - bal) * portion[1] # 0) => static.log
               /\ static = running
    /\ ((WasReset \/ Stepped) /\ Returned /\ variant # "Simple") =>
           /\ \A a \in AssetSet :
                LET static  == PricePerShareNorm(Last(net_worth), balance,
                                   agent_portfolio.positions_full[a],
                                   agent_portfolio.positions_norm[a])
                    running == PricePerShareMaxScale(Last(net_worth), balance,
                                   agent_portfolio.positions_full[a],
                                   agent_portfolio.positions_norm[a])
                IN  /\ agent_portfolio.positions_full[a] < 1 =>
                          ret.obs.rows[a].pps = PpsZero
                    /\ ret.obs.rows[a].pps = static
                    /\ static = running
           /\ shares_held < 1 => ret.obs.meta.pps = PpsZero

\* an observation of the static variant with asset A held and asset B not:
\* a logarithm for A, the plain 0 for B
C11_Witness ==
    /\ Stepped /\ Returned /\ variant = "Norm"
    /\ agent_portfolio.positions_full["A"] >= 1
    /\ agent_portfolio.positions_full["B"] < 1
    /\ ret.obs.rows["A"].pps.log
    /\ ret.obs.rows["B"].pps = PpsZero

\* the norms argument is a dict the setter should refuse
MalformedNorms(norms) ==
    /\ norms.kind = "dict"
    /\ \/ DOMAIN norms.value # AssetSet
       \/ \E a \in DOMAIN norms.value : DOMAIN norms.value[a] # {"shift", "scale"}

\* C12: the static variant constructed with norms whose key set is not the
\* asset set, or with an entry whose keys are not exactly shift and scale,
\* fails at construction with the assertion, and with norms that are neither
\* absent nor a dict with ValueError; the state stays that of the failed
\* construction, no reset() or step() runs.  Norms that are accepted are
\* self._normalizers, unchanged, in every later state.
C12_NormsValidation ==
    variant = "Norm" =>
        /\ MalformedNorms(hist.norms) =>
             ret = Raised("init", "AssertionError") /\ current_step = 0
        /\ hist.norms.kind \notin {"none", "dict"} =>
             ret = Raised("init", "ValueError") /\ current_step = 0
        /\ (hist.norms.kind = "dict" /\ ~MalformedNorms(hist.norms)) =>
             Exists /\ normalizers = hist.norms.value
        /\ hist.norms.kind = "none" => Exists

\* a construction refused for an entry with a key too many, the assets right
C12_Witness ==
    /\ variant = "Norm" /\ hist.norms.kind = "dict"
    /\ DOMAIN hist.norms.value = AssetSet
    /\ \E a \in AssetSet : DOMAIN hist.norms.value[a] = {"shift", "scale", "mean"}
    /\ \A a \in AssetSet : {"shift", "scale"} \subseteq DOMAIN hist.norms.value[a]
    /\ ret = Raised("init", "AssertionError")

\* C13: each step() that reaches _take_action hands one trade to the agent
\* ledger and one to the baseline ledger, at the same prices, the baseline's
\* with weight 1 for every asset whatever the agent's action; reset(), the
\* observation and the reward hand none: k steps after a reset each ledger has
\* executed k trades, and a step() refused before _take_action adds none.
C13_LockStep ==
    /\ agent_portfolio.n_trades = Calls
    /\ long_portfolio.n_trades = Calls
    /\ Calls = 0 =>
         /\ agent_portfolio.last_alloc = << >> /\ agent_portfolio.last_prices = << >>
         /\ long_portfolio.last_alloc = << >> /\ long_portfolio.last_prices = << >>
    /\ Calls > 0 =>
         /\ long_portfolio.last_alloc = [a \in AssetSet |-> 1]
         /\ long_portfolio.last_prices = agent_portfolio.last_prices
         /\ DOMAIN agent_portfolio.last_alloc = Range(positions)

\* two steps with the agent in cash: two trades on either ledger, the
\* baseline's with weight 1 throughout
C13_Witness ==
    /\ Stepped /\ Returned /\ hist.steps_ok = 2
    /\ agent_portfolio.n_trades = 2 /\ long_portfolio.n_trades = 2
    /\ \A a \in AssetSet : agent_portfolio.last_alloc[a] = 0
    /\ \A a \in AssetSet : agent_portfolio.positions_full[a] = 0
    /\ \E a \in AssetSet : long_portfolio.positions_full[a] > 0

\* C14 (as claimed): in the max-scale variant, every running maximum is
\* non-zero when _next_observation divides by it: no observation returned by
\* reset() or step() has a feature with divisor 0.
C14_DivisorNonZero ==
    ((WasReset \/ Stepped) /\ Returned /\ variant = "MaxScale") =>
        \A a \in AssetSet, f \in FeatureSet : ret.obs.rows[a].features[f].den # 0

\* the tables that differ from self.stocks in one value of a row at index
\* `from` or later
Altered(from) ==
    { [stocks EXCEPT ![a][r][f] = @ + 1] :
        a \in AssetSet, r \in { q \in DOMAIN stocks[positions[1]] : q >= from },
        f \in FeatureSet }

\* the running maxima after rows r .. t-1 of `tables` were merged into sc
RECURSIVE MergeRows(_, _, _, _)
MergeRows(sc, tables, r, t) ==
    IF r >= t THEN sc
    ELSE MergeRows([a \in AssetSet |-> UpdateScalers(sc[a], tables[a][r])],
                   tables, r + 1, t)

\* the divisors of the observation at cursor t of an episode on `tables`:
\* the seed of reset(), then rows 1 .. t-1 merged in
DivisorsAt(tables, t) ==
    LET c == ConfigureScalersInit(tables, 0)
    IN  IF c.ok THEN [ok |-> TRUE, scalers |-> MergeRows(c.scalers, tables, 1, t)]
        ELSE [ok |-> FALSE, scalers |-> << >>]

\* the divisors the last observation was built with
DivisorsUsed == [a \in AssetSet |-> [f \in FeatureSet |-> ret.obs.rows[a].features[f].den]]

\* C15 (as claimed): what enters the observation returned at cursor t is
\* computed from rows of index <= t only: the raw features are those of row t,
\* the default shift and scale of the static variant are the same on every
\* table that agrees with this one up to row t, and the divisors of the
\* max-scale variant are the same on every table that agrees with this one
\* on the rows before t.
C15_NoLookAhead ==
    ((WasReset \/ Stepped) /\ Returned) =>
        /\ \A a \in AssetSet, f \in FeatureSet :
             RawOf(ret.obs, a, f) = stocks[a][current_step][f]
        /\ (variant = "Norm" /\ hist.norms.kind = "none") =>
             \A alt \in Altered(current_step + 1) : DefaultNormalizers(alt) = normalizers
        /\ variant = "MaxScale" =>
             \A alt \in Altered(current_step) :
                 DivisorsAt(alt, current_step) = [ok |-> TRUE, scalers |-> DivisorsUsed]

\* C16 (as claimed): reset() of the max-scale variant seeds every asset's
\* running maximum from row 0 of that asset: a component that is not zero
\* there is the seed as it stands (so an asset whose row 0 holds no zero is
\* seeded with row 0 exactly), whatever the rows of the assets before it.
C16_SeedFromStartRow ==
    (WasReset /\ Returned /\ variant = "MaxScale") =>
        \A a \in AssetSet, f \in FeatureSet :
            stocks[a][0][f] # 0 => DivisorsUsed[a][f] = stocks[a][0][f]

\* C17 (as claimed): the forward scan of _configure_scalers_init ends without
\* reading a row past the last one, whatever zeros the table holds: no
\* reset() of the max-scale variant raises IndexError.
C17_ScanWithinBounds ==
    (WasReset /\ variant = "MaxScale") => ret.status # "IndexError"

\* C18: no reset() or step() changes a value of the feature table, the shift
\* and scale of the static variant, or a construction parameter; what they
\* change is the cursor, the ledgers, the trajectories, the mirrors and, in
\* the max-scale variant only, the running maxima.
C18_Frozen ==
    [][ /\ stocks' = stocks
        /\ normalizers' = normalizers
        /\ variant' = variant /\ fee' = fee /\ balance_init' = balance_init
        /\ variant # "MaxScale" => scalers' = scalers ]_vars

\* a max-scale episode that has raised a running maximum above the row it was
\* seeded from, the table as it was
C18_Witness ==
    /\ variant = "MaxScale" /\ Stepped /\ Returned
    /\ \E a \in AssetSet, f \in FeatureSet : scalers[a][f] > stocks[a][0][f]
    /\ stocks \in Tables

\* C19: after a step() that traded, self.balance is the agent ledger's
\* balance, self.shares_held the sum of its quantities, net_worth[-1] its net
\* worth and net_worth_long[-1] the baseline ledger's net worth; after
\* reset() the four are balance_init, 0, balance_init and balance_init, as
\* are the fields of the two ledgers once reset; a step() that is refused
\* leaves the agreement as it was.
C19_MirrorsTrackLedger ==
    /\ current_step # 0 =>
         /\ balance = agent_portfolio.balance
         /\ shares_held = SumOver(agent_portfolio.positions_full, AssetSet)
         /\ Last(net_worth) = agent_portfolio.net_worth
         /\ Last(net_worth_long) = long_portfolio.net_worth
    /\ WasReset =>
         /\ balance = balance_init /\ shares_held = 0
         /\ Last(net_worth) = balance_init /\ Last(net_worth_long) = balance_init

\* a step that bought: the mirrors have left their reset values and the
\* two trajectories have parted
C19_Witness ==
    /\ Stepped /\ Returned
    /\ shares_held > 0 /\ balance < balance_init
    /\ Last(net_worth) # Last(net_worth_long)
    /\ Last(net_worth) # balance_init

====
